---- MODULE Spec2Model ----
(***************************************************************************)
(* A model of gmail-cleaner-hello: the EmailFilter of email_filter.py (the *)
(* staged accept/reject decision, the categorizer, the query builder and  *)
(* the statistics over a list of messages),                                *)
(* the FilterConfig / SafetyConfig records of config.py and the update of  *)
(* a FilterConfig from a loaded file, and the search, the bulk retrieval   *)
(* and the bulk deletion of gmail_client.py.                               *)
(*                                                                         *)
(* Conventions.                                                            *)
(*  - A Python str that the code searches (sender, subject, patterns) is a *)
(*    sequence of one-character strings, so that lower() and the substring *)
(*    test `in` are computed, not assumed.  Labels and ids, which the code *)
(*    only compares for equality, are TLA+ strings.                        *)
(*  - Time is an integer count of clock units, UnitsPerDay of them a day.  *)
(*  - An Optional[int] bound of FilterConfig is an integer, None being 0:  *)
(*    the code reads these fields only through truth tests (`if x:`), under *)
(*    which None and 0 are the same.  The max_results of search_messages   *)
(*    is read the same way and modelled the same way.                      *)
(*  - A float score or confidence is an integer number of tenths.          *)
(***************************************************************************)
EXTENDS Integers, Sequences, FiniteSets, TLC

VARIABLES
    config,        \* EmailFilter.config: the FilterConfig record
    compiled,      \* EmailFilter.newsletter_patterns / automated_patterns
    email,         \* the metadata dict the caller holds and passes in
    clock,         \* the wall clock datetime.now() reads
    call,          \* the EmailFilter call: its frame, then what it returned
    safety,        \* Config.safety: the SafetyConfig record
    provider,      \* the remote mailbox: how it answers the requests of a run
    batch,         \* the frame of the GmailClient call in progress
    api_calls      \* the requests the provider has received, in order

vars == <<config, compiled, email, clock, call, safety, provider, batch, api_calls>>

----------------------------------------------------------------------------
(* Bounds of the model *)

UnitsPerDay == 2
MaxTicks == 1
MaxIds == 3

\* the clock's reading when the run starts: day 500
Epoch == 500 * UnitsPerDay

----------------------------------------------------------------------------
(* Python's str and list operations *)

UpperToLower ==
    ("A" :> "a") @@ ("B" :> "b") @@ ("C" :> "c") @@ ("D" :> "d") @@ ("E" :> "e") @@
    ("F" :> "f") @@ ("G" :> "g") @@ ("H" :> "h") @@ ("I" :> "i") @@ ("J" :> "j") @@
    ("K" :> "k") @@ ("L" :> "l") @@ ("M" :> "m") @@ ("N" :> "n") @@ ("O" :> "o") @@
    ("P" :> "p") @@ ("Q" :> "q") @@ ("R" :> "r") @@ ("S" :> "s") @@ ("T" :> "t") @@
    ("U" :> "u") @@ ("V" :> "v") @@ ("W" :> "w") @@ ("X" :> "x") @@ ("Y" :> "y") @@
    ("Z" :> "z")

\* str.lower()
lower(s) ==
    [i \in 1..Len(s) |-> IF s[i] \in DOMAIN UpperToLower THEN UpperToLower[s[i]] ELSE s[i]]

\* needle in hay, for two str
StrIn(needle, hay) ==
    \E i \in 0..(Len(hay) - Len(needle)) :
        \A j \in 1..Len(needle) : hay[i + j] = needle[j]

\* x in list
ListIn(x, list) == \E i \in 1..Len(list) : list[i] = x

\* the first index of list whose element satisfies the set of hits, 0 if none
FirstOf(hits) == IF hits = {} THEN 0 ELSE CHOOSE i \in hits : \A j \in hits : i <= j

\* email.utils.parseaddr(s)[1] for the two shapes of From header the model
\* draws: a bare addr-spec, and  display-name <addr-spec>
parseaddr(s) ==
    LET open == {i \in 1..Len(s) : s[i] = "<"}
        close == {i \in 1..Len(s) : s[i] = ">"}
    IN  IF open # {} /\ close # {} /\ FirstOf(open) < FirstOf(close)
        THEN SubSeq(s, FirstOf(open) + 1, FirstOf(close) - 1)
        ELSE s

----------------------------------------------------------------------------
(* config.py: FilterConfig *)

DefaultNewsletterDomains ==
    << <<"n", "o", "r", "e", "p", "l", "y", "@">>,
       <<"n", "o", "-", "r", "e", "p", "l", "y", "@">>,
       <<"n", "e", "w", "s", "l", "e", "t", "t", "e", "r", "@">>,
       <<"m", "a", "r", "k", "e", "t", "i", "n", "g", "@">>,
       <<"n", "o", "t", "i", "f", "i", "c", "a", "t", "i", "o", "n", "s", "@">>,
       <<"u", "p", "d", "a", "t", "e", "s", "@">>,
       <<"s", "u", "p", "p", "o", "r", "t", "@">> >>

DefaultExcludeLabels == <<"IMPORTANT", "STARRED">>

DefaultExcludeFolders == <<"SENT", "DRAFTS">>

\* FilterConfig(): the dataclass defaults after __post_init__
DefaultFilterConfig ==
    [ older_than_days   |-> 365,
      newer_than_days   |-> 0,
      min_size_mb       |-> 0,
      max_size_mb       |-> 0,
      exclude_senders   |-> <<>>,
      include_senders   |-> <<>>,
      newsletter_domains |-> DefaultNewsletterDomains,
      exclude_labels    |-> DefaultExcludeLabels,
      include_labels    |-> <<>>,
      exclude_folders   |-> DefaultExcludeFolders,
      custom_queries    |-> <<>> ]

SenderBoss == <<"B", "o", "s", "s", "@", "C", "o", "m", "p", "a", "n", "y", ".", "c", "o", "m">>

SenderRetailer == <<"r", "e", "t", "a", "i", "l", "e", "r", ".", "c", "o", "m">>

\* the rule sets the filter is constructed with
FilterConfigs ==
    { [ DefaultFilterConfig EXCEPT
          !.older_than_days = o, !.newer_than_days = n,
          !.min_size_mb = lo, !.max_size_mb = hi,
          !.exclude_senders = xs, !.include_senders = is,
          !.exclude_labels = xl, !.include_labels = il, !.exclude_folders = xf ] :
        o \in {0, 2, 365}, n \in {0, 1, 400}, lo \in {0, 1}, hi \in {0, 10},
        xs \in {<<>>, <<SenderBoss>>}, is \in {<<>>, <<SenderRetailer>>},
        xl \in {DefaultExcludeLabels, <<>>}, il \in {<<>>, <<"PROMOTIONS">>},
        xf \in {DefaultExcludeFolders} }

----------------------------------------------------------------------------
(* The message metadata of gmail_client.extract_message_metadata *)

NoDate == <<>>

MB == 1024 * 1024

SubjectNewsletter == <<"N", "e", "w", "s", "l", "e", "t", "t", "e", "r", ":", " ", "W", "e", "e", "k", "l", "y", " ", "U", "p", "d", "a", "t", "e", "s">>

SubjectMeeting == <<"I", "m", "p", "o", "r", "t", "a", "n", "t", " ", "M", "e", "e", "t", "i", "n", "g", " ", "T", "o", "m", "o", "r", "r", "o", "w">>

SubjectOffer == <<"S", "p", "e", "c", "i", "a", "l", " ", "O", "f", "f", "e", "r", " ", "-", " ", "5", "0", "%", " ", "O", "f", "f", "!">>

SubjectReceipt == <<"P", "a", "y", "m", "e", "n", "t", " ", "r", "e", "c", "e", "i", "p", "t", ":", " ", "o", "r", "d", "e", "r", " ", "i", "n", "v", "o", "i", "c", "e">>

FromNewsletter == <<"n", "e", "w", "s", "l", "e", "t", "t", "e", "r", "@", "e", "x", "a", "m", "p", "l", "e", ".", "c", "o", "m">>

FromBoss == <<"b", "o", "s", "s", "@", "c", "o", "m", "p", "a", "n", "y", ".", "c", "o", "m">>

FromSales == <<"s", "a", "l", "e", "s", "@", "r", "e", "t", "a", "i", "l", "e", "r", ".", "c", "o", "m">>

FromShop == <<"S", "h", "o", "p", " ", "A", "l", "e", "r", "t", "s", " ", "<", "N", "o", "R", "e", "p", "l", "y", "@", "s", "h", "o", "p", ".", "c", "o", "m", ">">>

\* id, subject, sender and labels: the three test emails of email_filter.py,
\* a sent message, and a starred one whose sender has a display name
Envelopes ==
    { [id |-> "1", subject |-> SubjectNewsletter, from |-> FromNewsletter,
       label_ids |-> <<"INBOX">>],
      [id |-> "2", subject |-> SubjectMeeting, from |-> FromBoss,
       label_ids |-> <<"INBOX", "IMPORTANT">>],
      [id |-> "3", subject |-> SubjectOffer, from |-> FromSales,
       label_ids |-> <<"INBOX", "PROMOTIONS">>],
      [id |-> "4", subject |-> SubjectMeeting, from |-> FromBoss,
       label_ids |-> <<"SENT">>],
      [id |-> "5", subject |-> SubjectReceipt, from |-> FromShop,
       label_ids |-> <<"STARRED", "INBOX">>] }

\* metadata['date']: None, or <<instant, tzinfo>>
Dates ==
    { NoDate,
      <<Epoch - 400 * UnitsPerDay, "naive">>,
      <<Epoch - 365 * UnitsPerDay, "aware">>,
      <<Epoch - 365 * UnitsPerDay + 1, "naive">>,
      <<Epoch - 10 * UnitsPerDay, "naive">>,
      <<Epoch - 2 * UnitsPerDay + 1, "aware">> }

\* metadata['size_estimate'], in bytes
Sizes == {0, 50000, MB, 10 * MB, 10 * MB + 1}

Emails ==
    { [id |-> e.id, subject |-> e.subject, from |-> e.from, label_ids |-> e.label_ids,
       date |-> d, size_estimate |-> s] : e \in Envelopes, d \in Dates, s \in Sizes }

----------------------------------------------------------------------------
(* email_filter.py: FilterResult and the six stages *)

\* Python's None: a stage's `return None`, a field left at None
None == [none |-> TRUE]

IsNone(r) == "none" \in DOMAIN r

FilterResult(should_process, reason, confidence, filter_type, metadata) ==
    [ should_process |-> should_process, reason |-> reason, confidence |-> confidence,
      filter_type |-> filter_type, metadata |-> metadata ]

\* (a - b).days of a timedelta: whole days, rounded down
days(units) == units \div UnitsPerDay

\* timedelta(days = n)
timedelta(n) == n * UnitsPerDay

\* excluded_label with the loop left after its first round: only the first
\* configured label is tested
excluded_label_first_only(cfg, label_ids) ==
    IF cfg.exclude_labels # <<>> /\ ListIn(cfg.exclude_labels[1], label_ids) THEN 1 ELSE 0

\* the first exclude_label that is in label_ids (its index, 0 if none)
excluded_label(cfg, label_ids) ==
    FirstOf({i \in 1..Len(cfg.exclude_labels) : ListIn(cfg.exclude_labels[i], label_ids)})

\* the first exclude_folder that is in label_ids
excluded_folder(cfg, label_ids) ==
    FirstOf({i \in 1..Len(cfg.exclude_folders) : ListIn(cfg.exclude_folders[i], label_ids)})

\* the first exclude_sender whose lower-case form occurs in the sender
excluded_sender(cfg, sender) ==
    FirstOf({i \in 1..Len(cfg.exclude_senders) : StrIn(lower(cfg.exclude_senders[i]), sender)})

check_exclusions(cfg, metadata) ==
    LET label_ids == metadata.label_ids
        sender == lower(metadata.from)
        l == excluded_label(cfg, label_ids)
        f == excluded_folder(cfg, label_ids)
        s == excluded_sender(cfg, sender)
    IN  IF l # 0
        THEN FilterResult(FALSE, <<"Has excluded label: ", cfg.exclude_labels[l]>>, 10,
                          "exclusion", [excluded_label |-> cfg.exclude_labels[l]])
        ELSE IF f # 0
        THEN FilterResult(FALSE, <<"In excluded folder: ", cfg.exclude_folders[f]>>, 10,
                          "exclusion", [excluded_folder |-> cfg.exclude_folders[f]])
        ELSE IF s # 0
        THEN FilterResult(FALSE, <<"From excluded sender: ", cfg.exclude_senders[s]>>, 10,
                          "exclusion", [excluded_sender |-> cfg.exclude_senders[s]])
        ELSE None

\* date_parse_error with the confidence of a hard exclusion
date_parse_error_certain ==
    [ should_process |-> FALSE, reason |-> <<"Unable to parse email date">>,
      confidence |-> 10, filter_type |-> "time", metadata |-> [date_parse_error |-> TRUE] ]

\* date_parse_error with the missing date let through to the next stage
date_parse_error_ignored == [none |-> TRUE]

\* the result for a message without a date
date_parse_error ==
    FilterResult(FALSE, <<"Unable to parse email date">>, 5, "time",
                 [date_parse_error |-> TRUE])

\* too_recent with >= for >: the cutoff itself counts as too recent
too_recent_inclusive(cfg, email_date, now) ==
    /\ cfg.older_than_days # 0
    /\ email_date[1] >= now - timedelta(cfg.older_than_days)

\* the older_than test: the bound is set and the message is newer than the cutoff
too_recent(cfg, email_date, now) ==
    /\ cfg.older_than_days # 0
    /\ email_date[1] > now - timedelta(cfg.older_than_days)

\* too_old with <= for <: the cutoff itself counts as too old
too_old_inclusive(cfg, email_date, now) ==
    /\ cfg.newer_than_days # 0
    /\ email_date[1] <= now - cfg.newer_than_days * UnitsPerDay

\* the newer_than test: the bound is set and the message is older than the cutoff
too_old(cfg, email_date, now) ==
    /\ cfg.newer_than_days # 0
    /\ email_date[1] < now - timedelta(cfg.newer_than_days)

check_time_filters(cfg, metadata, now) ==
    LET email_date == metadata.date
    IN  IF email_date = NoDate
        THEN date_parse_error
        ELSE IF too_recent(cfg, email_date, now)
        THEN FilterResult(FALSE,
                          <<"Email too recent (newer than ", ToString(cfg.older_than_days), " days)">>,
                          10, "time",
                          [email_age_days |-> days(now - email_date[1]),
                           cutoff_days |-> cfg.older_than_days])
        ELSE IF too_old(cfg, email_date, now)
        THEN FilterResult(FALSE,
                          <<"Email too old (older than ", ToString(cfg.newer_than_days), " days)">>,
                          10, "time",
                          [email_age_days |-> days(now - email_date[1]),
                           min_age_days |-> cfg.newer_than_days])
        ELSE None

\* f"{size_mb:.2f}": the size in hundredths of a megabyte, rounded half to even
Hundredths(size_bytes) ==
    LET q == (size_bytes * 100) \div MB
        r == (size_bytes * 100) % MB
    IN  IF 2 * r > MB \/ (2 * r = MB /\ q % 2 = 1) THEN q + 1 ELSE q

Fixed2(size_bytes) ==
    LET h == Hundredths(size_bytes)
    IN  <<ToString(h \div 100), ".", ToString((h % 100) \div 10), ToString(h % 10)>>

\* check_size_filters with >= for > in the maximum test: a message of exactly
\* the maximum size is rejected
check_size_filters_inclusive(cfg, metadata) ==
    IF cfg.min_size_mb # 0 /\ metadata.size_estimate < cfg.min_size_mb * 1024 * 1024
    THEN [ should_process |-> FALSE, reason |-> <<"Email too small">>, confidence |-> 8,
           filter_type |-> "size", metadata |-> [min_size_mb |-> cfg.min_size_mb] ]
    ELSE IF cfg.max_size_mb # 0 /\ metadata.size_estimate >= cfg.max_size_mb * 1024 * 1024
    THEN [ should_process |-> FALSE, reason |-> <<"Email too large">>, confidence |-> 8,
           filter_type |-> "size", metadata |-> [max_size_mb |-> cfg.max_size_mb] ]
    ELSE [none |-> TRUE]

\* size_mb = size_bytes / (1024 * 1024) is compared as size_bytes against
\* bound * 1024 * 1024: the division by a power of two is exact
check_size_filters(cfg, metadata) ==
    LET size_bytes == metadata.size_estimate
    IN  IF cfg.min_size_mb # 0 /\ size_bytes < cfg.min_size_mb * MB
        THEN FilterResult(FALSE,
                          <<"Email too small (">> \o Fixed2(size_bytes)
                              \o <<" MB < ", ToString(cfg.min_size_mb), " MB)">>,
                          8, "size",
                          [size_mb |-> <<size_bytes, MB>>, min_size_mb |-> cfg.min_size_mb])
        ELSE IF cfg.max_size_mb # 0 /\ size_bytes > cfg.max_size_mb * MB
        THEN FilterResult(FALSE,
                          <<"Email too large (">> \o Fixed2(size_bytes)
                              \o <<" MB > ", ToString(cfg.max_size_mb), " MB)">>,
                          8, "size",
                          [size_mb |-> <<size_bytes, MB>>, max_size_mb |-> cfg.max_size_mb])
        ELSE None

check_sender_filters(cfg, metadata) ==
    LET sender == lower(metadata.from)
        sender_email == lower(parseaddr(sender))
        included == \E i \in 1..Len(cfg.include_senders) :
                        StrIn(lower(cfg.include_senders[i]), sender)
    IN  IF cfg.include_senders # <<>> /\ ~included
        THEN FilterResult(FALSE, <<"Sender not in whitelist">>, 9, "sender",
                          [sender |-> sender_email, whitelist_only |-> TRUE])
        ELSE None

check_content_filters(cfg, metadata) ==
    LET label_ids == metadata.label_ids
        has_required_label == \E i \in 1..Len(cfg.include_labels) :
                                  ListIn(cfg.include_labels[i], label_ids)
    IN  IF cfg.include_labels # <<>> /\ ~has_required_label
        THEN FilterResult(FALSE, <<"Missing required labels">>, 8, "content",
                          [required_labels |-> cfg.include_labels,
                           email_labels |-> label_ids])
        ELSE None

check_custom_queries(cfg, metadata) == None

\* filters with the time stage ahead of the exclusions
filters_time_first ==
    << "check_time_filters", "check_exclusions", "check_size_filters",
       "check_sender_filters", "check_content_filters", "check_custom_queries" >>

\* the list `filters` of should_process_email, in its order
filters ==
    << "check_exclusions", "check_time_filters", "check_size_filters",
       "check_sender_filters", "check_content_filters", "check_custom_queries" >>

\* filter_func(email_metadata); the time stage reads the clock
filter_func(name, cfg, metadata, now) ==
    CASE name = "check_exclusions" -> check_exclusions(cfg, metadata)
      [] name = "check_time_filters" -> check_time_filters(cfg, metadata, now)
      [] name = "check_size_filters" -> check_size_filters(cfg, metadata)
      [] name = "check_sender_filters" -> check_sender_filters(cfg, metadata)
      [] name = "check_content_filters" -> check_content_filters(cfg, metadata)
      [] name = "check_custom_queries" -> check_custom_queries(cfg, metadata)

Passed ==
    FilterResult(TRUE, <<"Passed all filter criteria">>, 8, "inclusive",
                 [passed_all_filters |-> TRUE])

\* run_filters with the `not` of its test dropped: no rejection is returned
RECURSIVE run_filters_no_not(_, _, _, _)
run_filters_no_not(i, cfg, metadata, now) ==
    IF i > Len(filters)
    THEN [result |-> Passed, called |-> filters]
    ELSE LET result == filter_func(filters[i], cfg, metadata, now)
         IN  IF ~IsNone(result) /\ result.should_process
             THEN [result |-> result, called |-> SubSeq(filters, 1, i)]
             ELSE run_filters_no_not(i + 1, cfg, metadata, now)

\* the loop of should_process_email from its i-th filter on: the FilterResult it
\* returns, and the stage functions it has called by then
RECURSIVE run_filters(_, _, _, _)
run_filters(i, cfg, metadata, now) ==
    IF i > Len(filters)
    THEN [result |-> Passed, called |-> filters]
    ELSE LET result == filter_func(filters[i], cfg, metadata, now)
         IN  IF ~IsNone(result) /\ ~result.should_process
             THEN [result |-> result, called |-> SubSeq(filters, 1, i)]
             ELSE run_filters(i + 1, cfg, metadata, now)

should_process_email(cfg, metadata, now) == run_filters(1, cfg, metadata, now)

----------------------------------------------------------------------------
(* email_filter.py: _compile_patterns and categorize_email *)

\* the ten newsletter patterns; each is a literal but `promotional?`, whose
\* final l is optional, so that it is found exactly where "promotiona" is
newsletter_patterns ==
    << <<"u", "n", "s", "u", "b", "s", "c", "r", "i", "b", "e">>,
       <<"n", "e", "w", "s", "l", "e", "t", "t", "e", "r">>,
       <<"m", "a", "r", "k", "e", "t", "i", "n", "g">>,
       <<"p", "r", "o", "m", "o", "t", "i", "o", "n", "a">>,
       <<"o", "f", "f", "e", "r">>,
       <<"d", "e", "a", "l">>,
       <<"s", "a", "l", "e">>,
       <<"d", "i", "s", "c", "o", "u", "n", "t">>,
       <<"c", "l", "i", "c", "k", " ", "h", "e", "r", "e">>,
       <<"l", "i", "m", "i", "t", "e", "d", " ", "t", "i", "m", "e">> >>

automated_patterns ==
    << <<"n", "o", "r", "e", "p", "l", "y">>,
       <<"n", "o", "-", "r", "e", "p", "l", "y">>,
       <<"d", "o", "n", "o", "t", "r", "e", "p", "l", "y">>,
       <<"a", "u", "t", "o", "m", "a", "t", "e", "d">>,
       <<"n", "o", "t", "i", "f", "i", "c", "a", "t", "i", "o", "n">>,
       <<"a", "l", "e", "r", "t">>,
       <<"s", "y", "s", "t", "e", "m">> >>

\* what _compile_patterns leaves on the filter
compile_patterns ==
    [newsletter_patterns |-> newsletter_patterns, automated_patterns |-> automated_patterns]

promotional_keywords ==
    << <<"s", "a", "l", "e">>,
       <<"d", "e", "a", "l">>,
       <<"o", "f", "f", "e", "r">>,
       <<"d", "i", "s", "c", "o", "u", "n", "t">>,
       <<"l", "i", "m", "i", "t", "e", "d", " ", "t", "i", "m", "e">>,
       <<"%">> >>

receipt_keywords ==
    << <<"r", "e", "c", "e", "i", "p", "t">>,
       <<"i", "n", "v", "o", "i", "c", "e">>,
       <<"p", "a", "y", "m", "e", "n", "t">>,
       <<"o", "r", "d", "e", "r">>,
       <<"p", "u", "r", "c", "h", "a", "s", "e">>,
       <<"t", "r", "a", "n", "s", "a", "c", "t", "i", "o", "n">> >>

\* pattern.search(text) with re.IGNORECASE, for a literal pattern
search(pattern, text) == StrIn(lower(pattern), lower(text))

\* how many entries of the list occur in the text
Matches(list, text) == Cardinality({i \in 1..Len(list) : StrIn(list[i], text)})

\* how many patterns of the list are found in the text
Found(patterns, text) == Cardinality({i \in 1..Len(patterns) : search(patterns[i], text)})

\* capped without the min: the raw sum is reported
uncapped(score) == score

\* min(score, 1.0), in tenths
capped(score) == IF score < 10 THEN score ELSE 10

\* is_promotional with >= for >
is_promotional_inclusive(promotional_score) == promotional_score >= 4

\* promotional_score > 0.4
is_promotional(promotional_score) == promotional_score > 4

categorize_email(cfg, patterns, metadata) ==
    LET subject == lower(metadata.subject)
        sender == lower(metadata.from)
        sender_email == lower(parseaddr(sender))
        newsletter_score == 3 * Found(patterns.newsletter_patterns, subject)
                            + 4 * Matches(cfg.newsletter_domains, sender_email)
        automated_score == 5 * Found(patterns.automated_patterns, sender_email)
                           + 3 * Found(patterns.automated_patterns, subject)
        promotional_score == 2 * Matches(promotional_keywords, subject)
        receipt_score == 3 * Matches(receipt_keywords, subject)
    IN  [ is_newsletter |-> newsletter_score > 5,
          is_promotional |-> is_promotional(promotional_score),
          is_automated |-> automated_score > 5,
          is_social |-> FALSE,
          is_receipt |-> receipt_score > 6,
          confidence_scores |->
              [ newsletter |-> capped(newsletter_score),
                automated |-> capped(automated_score),
                promotional |-> capped(promotional_score),
                receipt |-> capped(receipt_score) ] ]

----------------------------------------------------------------------------
(* email_filter.py: build_gmail_query *)

\* The query str is a sequence of fragments whose concatenation it is: the
\* literal pieces of the f-strings, the configured values, and the " " and
\* " OR " that join puts between parts.

RECURSIVE join(_, _)
\* sep.join(parts), for parts that are sequences of fragments
join(sep, parts) ==
    IF parts = <<>> THEN <<>>
    ELSE IF Len(parts) = 1 THEN parts[1]
    ELSE parts[1] \o sep \o join(sep, Tail(parts))

\* a list of labels or of custom queries, each value as one fragment (a sender
\* is its characters already)
atoms(list) == [i \in 1..Len(list) |-> <<list[i]>>]

\* the parts appended for the time and size bounds
bound_parts(cfg) ==
    (IF cfg.older_than_days # 0
     THEN << <<"older_than:", ToString(cfg.older_than_days), "d">> >> ELSE <<>>)
    \o (IF cfg.newer_than_days # 0
        THEN << <<"newer_than:", ToString(cfg.newer_than_days), "d">> >> ELSE <<>>)
    \o (IF cfg.min_size_mb # 0
        THEN << <<"larger:", ToString(cfg.min_size_mb * 1024 * 1024)>> >> ELSE <<>>)
    \o (IF cfg.max_size_mb # 0
        THEN << <<"smaller:", ToString(cfg.max_size_mb * 1024 * 1024)>> >> ELSE <<>>)

\* one part prefix + value for each value of the list
each(prefix, list) == [i \in 1..Len(list) |-> <<prefix>> \o list[i]]

\* the single part "(" + " OR ".join(prefix + value ...) + ")", if the list is not empty
or_group(prefix, list) ==
    IF list # <<>>
    THEN << <<"(">> \o join(<<" OR ">>, each(prefix, list)) \o <<")">> >>
    ELSE <<>>

\* query_parts with the excluded folders appended ahead of the excluded labels
query_parts_folders_first(cfg) ==
    bound_parts(cfg)
    \o each("-in:", atoms(cfg.exclude_folders))
    \o each("-label:", atoms(cfg.exclude_labels))
    \o or_group("label:", atoms(cfg.include_labels))
    \o each("-from:", cfg.exclude_senders)
    \o or_group("from:", cfg.include_senders)
    \o atoms(cfg.custom_queries)

\* query_parts as build_gmail_query has filled it when it returns
query_parts(cfg) ==
    bound_parts(cfg)
    \o each("-label:", atoms(cfg.exclude_labels))
    \o each("-in:", atoms(cfg.exclude_folders))
    \o or_group("label:", atoms(cfg.include_labels))
    \o each("-from:", cfg.exclude_senders)
    \o or_group("from:", cfg.include_senders)
    \o atoms(cfg.custom_queries)

build_gmail_query(cfg) == join(<<" ">>, query_parts(cfg))

----------------------------------------------------------------------------
(* The EmailFilter as a state machine *)

NoCall == [op |-> "none"]

Idle == [pc |-> "idle"]

DefaultSafety == [dry_run_mode |-> TRUE, soft_delete |-> TRUE, max_retries |-> 3,
                  enable_rollback |-> TRUE]

\* the clock moves on between (and during) the calls of a run
Tick ==
    /\ clock < Epoch + MaxTicks
    /\ clock' = clock + 1
    /\ UNCHANGED <<config, compiled, email, call, safety, provider, batch, api_calls>>

\* EmailFilter.should_process_email(email)
ShouldProcessEmail ==
    /\ LET r == should_process_email(config, email, clock)
       IN  call' = [op |-> "should_process_email", now |-> clock,
                    result |-> r.result, called |-> r.called]
    /\ UNCHANGED <<config, compiled, email, clock, safety, provider, batch, api_calls>>

InitFilter ==
    /\ config \in FilterConfigs
    /\ compiled = compile_patterns
    /\ email \in Emails
    /\ clock = Epoch
    /\ call = NoCall
    /\ safety = DefaultSafety
    /\ provider = <<>>
    /\ batch = Idle
    /\ api_calls = <<>>

NextFilter == Tick \/ ShouldProcessEmail

SpecFilter == InitFilter /\ [][NextFilter]_vars

\* how often the model lets categorize_email be called on one message
MaxCalls == 2

\* the number of the next categorize_email call in a row
Nth == IF call.op = "categorize_email" THEN call.nth + 1 ELSE 1

\* CategorizeEmail with the lower-cased subject and sender written back into
\* the caller's dict
CategorizeEmail_in_place ==
    /\ Nth <= MaxCalls
    /\ call' = [op |-> "categorize_email", nth |-> Nth,
                result |-> categorize_email(config, compiled, email)]
    /\ email' = [email EXCEPT !.subject = lower(@), !.from = lower(@)]
    /\ UNCHANGED <<config, compiled, clock, safety, provider, batch, api_calls>>

\* EmailFilter.categorize_email(email)
CategorizeEmail ==
    /\ Nth <= MaxCalls
    /\ call' = [op |-> "categorize_email", nth |-> Nth,
                result |-> categorize_email(config, compiled, email)]
    /\ UNCHANGED <<config, compiled, email, clock, safety, provider, batch, api_calls>>

\* the newsletter_domains the categorizer is run with
CategorizeConfigs ==
    { [DefaultFilterConfig EXCEPT !.newsletter_domains = nd] :
        nd \in {DefaultNewsletterDomains, <<>>, <<SenderRetailer, FromSales>>} }

InitCategorize ==
    /\ config \in CategorizeConfigs
    /\ compiled = compile_patterns
    /\ email \in Emails
    /\ clock = Epoch
    /\ call = NoCall
    /\ safety = DefaultSafety
    /\ provider = <<>>
    /\ batch = Idle
    /\ api_calls = <<>>

NextCategorize == Tick \/ CategorizeEmail

SpecCategorize == InitCategorize /\ [][NextCategorize]_vars

\* EmailFilter.build_gmail_query()
BuildGmailQuery ==
    /\ call' = [op |-> "build_gmail_query", result |-> build_gmail_query(config)]
    /\ UNCHANGED <<config, compiled, email, clock, safety, provider, batch, api_calls>>

\* the rule sets the query is built from
QueryConfigs ==
    { [ DefaultFilterConfig EXCEPT
          !.older_than_days = o, !.newer_than_days = n,
          !.min_size_mb = lo, !.max_size_mb = hi,
          !.exclude_senders = xs, !.include_senders = is,
          !.exclude_labels = xl, !.include_labels = il, !.exclude_folders = xf,
          !.custom_queries = cq ] :
        o \in {0, 30, 365}, n \in {0, 7}, lo \in {0, 1}, hi \in {0, 10},
        xs \in {<<>>, <<SenderBoss>>}, is \in {<<>>, <<SenderRetailer, FromBoss>>},
        xl \in {DefaultExcludeLabels, <<>>, <<"SENT">>},
        il \in {<<>>, <<"INBOX", "PROMOTIONS">>},
        xf \in {DefaultExcludeFolders, <<>>},
        cq \in {<<>>, <<"has:attachment", "is:unread">>} }

InitQuery ==
    /\ config \in QueryConfigs
    /\ compiled = compile_patterns
    /\ email \in {e \in Emails : e.id = "1" /\ e.date = NoDate /\ e.size_estimate = 0}
    /\ clock = Epoch
    /\ call = NoCall
    /\ safety = DefaultSafety
    /\ provider = <<>>
    /\ batch = Idle
    /\ api_calls = <<>>

NextQuery == Tick \/ BuildGmailQuery

SpecQuery == InitQuery /\ [][NextQuery]_vars

----------------------------------------------------------------------------
(* Claims about should_process_email, checked under SpecFilter *)

Evaluated == call.op = "should_process_email"

\* the stage tags in the order the specification gives them
StageOrder == <<"exclusion", "time", "size", "sender", "content", "custom">>

\* the function of each stage, in the same order
StageFunctions ==
    << "check_exclusions", "check_time_filters", "check_size_filters",
       "check_sender_filters", "check_content_filters", "check_custom_queries" >>

\* what the stage with this tag decides for the filter's message at time now
StageDecision(tag, now) ==
    CASE tag = "exclusion" -> check_exclusions(config, email)
      [] tag = "time" -> check_time_filters(config, email, now)
      [] tag = "size" -> check_size_filters(config, email)
      [] tag = "sender" -> check_sender_filters(config, email)
      [] tag = "content" -> check_content_filters(config, email)
      [] tag = "custom" -> check_custom_queries(config, email)

StageRejects(tag, now) ==
    LET r == StageDecision(tag, now) IN ~IsNone(r) /\ ~r.should_process

RejectingStages(now) == {i \in 1..Len(StageOrder) : StageRejects(StageOrder[i], now)}

HasExcludedLabel ==
    \E i \in 1..Len(config.exclude_labels) : ListIn(config.exclude_labels[i], email.label_ids)

\* C1: a message carrying a label of the exclude-label set is rejected with
\* stage "exclusion" and confidence 1.0, whatever its date (absent or not), its
\* size, its sender and the rest of the configuration
C1_ExcludedLabelRejected ==
    (Evaluated /\ HasExcludedLabel)
        => /\ ~call.result.should_process
           /\ call.result.filter_type = "exclusion"
           /\ call.result.confidence = 10

\* C1's case: an excluded label on a message that later stages would reject too
\* (no date, above the maximum size, sender outside the whitelist)
C1_Witness ==
    /\ Evaluated /\ HasExcludedLabel
    /\ email.date = NoDate
    /\ config.max_size_mb # 0 /\ email.size_estimate > config.max_size_mb * MB
    /\ StageRejects("sender", call.now)
    /\ call.result.filter_type = "exclusion"

\* the decision is the older_than rejection ("Email too recent")
IsTooRecent(r) == r.filter_type = "time" /\ "cutoff_days" \in DOMAIN r.metadata

\* the decision is the newer_than rejection ("Email too old")
IsTooOld(r) == r.filter_type = "time" /\ "min_age_days" \in DOMAIN r.metadata

\* a dated message reaches the older_than check of a filter that has the bound set
OlderThanChecked ==
    /\ Evaluated
    /\ config.older_than_days # 0
    /\ email.date # NoDate
    /\ ~StageRejects("exclusion", call.now)

AtBoundary == email.date[1] = call.now - config.older_than_days * UnitsPerDay

\* C4 as stated: with older_than_days = N set, a message dated exactly N days
\* before the evaluation time is not rejected by the time stage, and the
\* older_than check rejects iff email_date > now - N days
C4_Original ==
    OlderThanChecked
        => /\ AtBoundary => call.result.filter_type # "time"
           /\ IsTooRecent(call.result)
                  <=> email.date[1] > call.now - config.older_than_days * UnitsPerDay

\* C4 amended: a message dated exactly N days before the evaluation time is
\* not rejected by the older_than check, and the time stage rejects it only
\* through a newer_than bound M < N (as too old); the older_than check rejects
\* iff email_date > now - N days, strictly
C4_BoundaryPassesOlderThan ==
    OlderThanChecked
        => /\ AtBoundary => ~IsTooRecent(call.result)
           /\ (AtBoundary /\ call.result.filter_type = "time")
                  => /\ IsTooOld(call.result)
                     /\ config.newer_than_days # 0
                     /\ config.newer_than_days < config.older_than_days
           /\ IsTooRecent(call.result)
                  <=> email.date[1] > call.now - config.older_than_days * UnitsPerDay

\* C4's case: a message exactly at the cutoff, evaluated after the clock has
\* moved, passes the whole filter
C4_Witness ==
    /\ OlderThanChecked /\ AtBoundary
    /\ call.now > Epoch
    /\ call.result.should_process

\* C7: the stages run in the order exclusion, time, size, sender, content,
\* custom; the decision returned is the one of the earliest rejecting stage
\* (tag, reason and confidence), and no stage after it is called
C7_FirstRejectingStageWins ==
    Evaluated
        => LET rejecting == RejectingStages(call.now)
               k == FirstOf(rejecting)
           IN  IF rejecting = {}
               THEN call.called = StageFunctions
               ELSE /\ call.result = StageDecision(StageOrder[k], call.now)
                    /\ call.result.filter_type = StageOrder[k]
                    /\ call.called = SubSeq(StageFunctions, 1, k)

\* C7's case: three stages would reject, and the earliest of them is not the
\* first stage of the list
C7_Witness ==
    /\ Evaluated
    /\ Cardinality(RejectingStages(call.now)) >= 3
    /\ call.result.filter_type = "size"
    /\ Len(call.called) = 3

\* C8: a message without a date that the exclusion stage lets through is
\* rejected with stage "time" and confidence 0.5, whatever the age bounds are
C8_MissingDateRejected ==
    (Evaluated /\ email.date = NoDate /\ ~StageRejects("exclusion", call.now))
        => /\ ~call.result.should_process
           /\ call.result.filter_type = "time"
           /\ call.result.confidence = 5

\* C8's case: no date, no age bound set at all, nothing else that would reject
C8_Witness ==
    /\ Evaluated /\ email.date = NoDate
    /\ config.older_than_days = 0 /\ config.newer_than_days = 0
    /\ RejectingStages(call.now) = {2}
    /\ call.result.confidence = 5

\* the first test email of email_filter.py, dated 400 days before the run
TestEmail1 ==
    [id |-> "1", subject |-> SubjectNewsletter, from |-> FromNewsletter,
     label_ids |-> <<"INBOX">>, date |-> <<Epoch - 400 * UnitsPerDay, "naive">>,
     size_estimate |-> 50000]

\* C9: a message is accepted iff none of the six stages rejects it; an accept
\* has stage "inclusive" and confidence 0.8; under the default configuration
\* (older_than_days 365) the INBOX message dated 400 days ago is accepted
C9_AcceptIffNoStageRejects ==
    Evaluated
        => /\ call.result.should_process <=> RejectingStages(call.now) = {}
           /\ call.result.should_process
                  => call.result.filter_type = "inclusive" /\ call.result.confidence = 8
           /\ (config = DefaultFilterConfig /\ email = TestEmail1)
                  => call.result.should_process

\* C9's case: the scenario itself
C9_Witness ==
    /\ Evaluated
    /\ config = DefaultFilterConfig /\ email = TestEmail1
    /\ call.result.filter_type = "inclusive"

\* a label, folder or sender of the exclusion lists matches the message
ExclusionMatch ==
    \/ \E i \in 1..Len(config.exclude_labels) : ListIn(config.exclude_labels[i], email.label_ids)
    \/ \E i \in 1..Len(config.exclude_folders) : ListIn(config.exclude_folders[i], email.label_ids)
    \/ \E i \in 1..Len(config.exclude_senders) :
           StrIn(lower(config.exclude_senders[i]), lower(email.from))

\* the message has a date, and the date is outside the window of the age
\* bounds that are set
OutOfWindow(now) ==
    /\ email.date # NoDate
    /\ \/ config.older_than_days # 0
          /\ email.date[1] > now - config.older_than_days * UnitsPerDay
       \/ config.newer_than_days # 0
          /\ email.date[1] < now - config.newer_than_days * UnitsPerDay

\* C15: every decision has a confidence within [0, 1] and one of the seven
\* stage tags; a reject has confidence 1.0 exactly when it is a hard exclusion
\* (a label, folder or sender match, or a date outside the window); the rejects
\* of the size, sender and content stages and the missing-date reject are
\* below 1.0
C15_ConfidenceByStage ==
    Evaluated
        => LET r == call.result
           IN  /\ r.confidence \in 0..10
               /\ r.filter_type \in {"exclusion", "time", "size", "sender", "content",
                                     "custom", "inclusive"}
               /\ ~r.should_process =>
                    /\ r.confidence = 10 <=> (ExclusionMatch \/ OutOfWindow(call.now))
                    /\ r.filter_type \in {"size", "sender", "content"} => r.confidence < 10
                    /\ (r.filter_type = "time" /\ email.date = NoDate) => r.confidence < 10
                    /\ r.filter_type = "exclusion" => ExclusionMatch
                    /\ (r.filter_type = "time" /\ email.date # NoDate) => OutOfWindow(call.now)

\* C15's case: a missing-date reject, below 1.0, of a message the heuristic
\* stages after it would reject too
C15_Witness ==
    /\ Evaluated /\ ~call.result.should_process
    /\ ~ExclusionMatch /\ email.date = NoDate
    /\ call.result.filter_type = "time" /\ call.result.confidence = 5
    /\ StageRejects("size", call.now) /\ StageRejects("sender", call.now)
    /\ StageRejects("content", call.now)

\* a dated message reaches the time stage of a filter that has both bounds set
BothBoundsChecked ==
    /\ Evaluated
    /\ config.older_than_days # 0 /\ config.newer_than_days # 0
    /\ email.date # NoDate
    /\ ~StageRejects("exclusion", call.now)

\* now - M days <= email_date <= now - N days
InWindow ==
    /\ call.now - config.newer_than_days * UnitsPerDay <= email.date[1]
    /\ email.date[1] <= call.now - config.older_than_days * UnitsPerDay

\* C18: with older_than_days = N and newer_than_days = M both set, a dated
\* message passes the time stage iff now - M days <= email_date <= now - N
\* days; a time reject has confidence 1.0; when M < N every dated message is
\* rejected by the time stage
C18_BothBoundsChecked ==
    BothBoundsChecked
        => /\ Len(call.called) >= 2 /\ call.called[2] = "check_time_filters"
           /\ call.result.filter_type # "time" <=> InWindow
           /\ call.result.filter_type = "time"
                  => ~call.result.should_process /\ call.result.confidence = 10
           /\ config.newer_than_days < config.older_than_days
                  => call.result.filter_type = "time" /\ call.result.confidence = 10

\* C18's case: a message right on the newer_than cutoff, and well past the
\* older_than one, goes through the time stage
C18_Witness ==
    /\ BothBoundsChecked
    /\ config.newer_than_days > config.older_than_days
    /\ email.date[1] = call.now - config.newer_than_days * UnitsPerDay
    /\ call.result.filter_type # "time"
    /\ Len(call.called) > 2

\* C18's other case: M < N, and a message old enough for the older_than bound
\* is turned away by the newer_than one
C18_WitnessEmptyWindow ==
    /\ BothBoundsChecked
    /\ config.newer_than_days < config.older_than_days
    /\ email.date[1] <= call.now - config.older_than_days * UnitsPerDay
    /\ IsTooOld(call.result)

\* the size stage is reached: the exclusion and time stages let the message by
SizeChecked == Evaluated /\ Len(call.called) >= 3

\* C19: the size stage compares bytes / 1048576 with the bounds that are set:
\* it rejects, with stage "size" and confidence 0.8, iff size_mb < min_size_mb
\* or size_mb > max_size_mb; a size equal to a bound passes, and a size of 0
\* counts as 0 MB
C19_SizeBounds ==
    SizeChecked
        => LET below == config.min_size_mb # 0
                        /\ email.size_estimate < config.min_size_mb * 1048576
               above == config.max_size_mb # 0
                        /\ email.size_estimate > config.max_size_mb * 1048576
           IN  /\ call.called[3] = "check_size_filters"
               /\ call.result.filter_type = "size" <=> (below \/ above)
               /\ call.result.filter_type = "size"
                      => ~call.result.should_process /\ call.result.confidence = 8
               /\ (email.size_estimate = 0 /\ config.min_size_mb # 0)
                      => call.result.filter_type = "size"

\* C19's case: a message of exactly the maximum size, with the minimum set as
\* well, passes the size stage
C19_Witness ==
    /\ SizeChecked
    /\ config.min_size_mb # 0 /\ config.max_size_mb # 0
    /\ email.size_estimate = config.max_size_mb * 1048576
    /\ call.result.filter_type # "size"
    /\ Len(call.called) > 3

----------------------------------------------------------------------------
(* Claims about categorize_email, checked under SpecCategorize *)

Categorized == call.op = "categorize_email"

\* the third test email of email_filter.py
IsOfferEmail == email.subject = SubjectOffer /\ email.from = FromSales

\* C5 as stated: for the subject "Special Offer - 50% Off!" from
\* sales@retailer.com the promotional score is at least 0.4 and
\* is_promotional is true
C5_Original ==
    (Categorized /\ IsOfferEmail)
        => /\ call.result.confidence_scores.promotional >= 4
           /\ call.result.is_promotional

\* C5 amended: for that message the promotional score is exactly 0.4 (the
\* keywords "offer" and "%"), which does not exceed the strict threshold, so
\* is_promotional is false
C5_OfferScoresExactlyThreshold ==
    (Categorized /\ IsOfferEmail)
        => /\ call.result.confidence_scores.promotional = 4
           /\ ~call.result.is_promotional

\* C5's case: the message has been categorized
C5_Witness ==
    /\ Categorized /\ IsOfferEmail
    /\ call.result.confidence_scores.promotional = 4

SenderEmail == lower(parseaddr(lower(email.from)))

Subject == lower(email.subject)

\* the sum of the increments of one loop: inc for every entry of the list, from
\* the i-th on, that occurs in the text, in tenths
RECURSIVE Increments(_, _, _, _)
Increments(list, text, inc, i) ==
    IF i > Len(list) THEN 0
    ELSE (IF StrIn(list[i], text) THEN inc ELSE 0) + Increments(list, text, inc, i + 1)

\* the summed score of each axis, before the cap
Sums ==
    [ newsletter |-> Increments(newsletter_patterns, Subject, 3, 1)
                     + Increments(config.newsletter_domains, SenderEmail, 4, 1),
      automated |-> Increments(automated_patterns, SenderEmail, 5, 1)
                    + Increments(automated_patterns, Subject, 3, 1),
      promotional |-> Increments(promotional_keywords, Subject, 2, 1),
      receipt |-> Increments(receipt_keywords, Subject, 3, 1) ]

\* C20: each reported score is the sum of the increments of its matches, capped
\* at 1.0 and so within [0, 1]; each flag is decided on the sum with a strict
\* threshold: newsletter > 0.5, automated > 0.5, promotional > 0.4, receipt > 0.6
C20_ScoresCappedThresholdsStrict ==
    Categorized
        => LET r == call.result
               scores == r.confidence_scores
           IN  /\ DOMAIN scores = {"newsletter", "automated", "promotional", "receipt"}
               /\ \A axis \in DOMAIN scores :
                      /\ scores[axis] = IF Sums[axis] > 10 THEN 10 ELSE Sums[axis]
                      /\ scores[axis] \in 0..10
               /\ r.is_newsletter <=> Sums.newsletter > 5
               /\ r.is_automated <=> Sums.automated > 5
               /\ r.is_promotional <=> Sums.promotional > 4
               /\ r.is_receipt <=> Sums.receipt > 6

\* C20's case: a sum above 1.0 reported as 1.0 on one axis, and on another a
\* sum right on its threshold that leaves the flag unset
C20_Witness ==
    /\ Categorized
    /\ Sums.newsletter > 10
    /\ call.result.confidence_scores.newsletter = 10 /\ call.result.is_newsletter
    /\ Sums.promotional = 4 /\ ~call.result.is_promotional

----------------------------------------------------------------------------
(* Claims about build_gmail_query, checked under SpecQuery *)

Built == call.op = "build_gmail_query"

\* part occurs in whole as a run of consecutive fragments
Occurs(part, whole) ==
    \E i \in 0..(Len(whole) - Len(part)) : SubSeq(whole, i + 1, i + Len(part)) = part

\* the clauses in the order the specification gives them
ClausesInOrder ==
    LET c == config
        opt(cond, clause) == IF cond THEN <<clause>> ELSE <<>>
    IN  opt(c.older_than_days # 0, <<"older_than:", ToString(c.older_than_days), "d">>)
        \o opt(c.newer_than_days # 0, <<"newer_than:", ToString(c.newer_than_days), "d">>)
        \o opt(c.min_size_mb # 0, <<"larger:", ToString(c.min_size_mb * MB)>>)
        \o opt(c.max_size_mb # 0, <<"smaller:", ToString(c.max_size_mb * MB)>>)
        \o [i \in 1..Len(c.exclude_labels) |-> <<"-label:", c.exclude_labels[i]>>]
        \o [i \in 1..Len(c.exclude_folders) |-> <<"-in:", c.exclude_folders[i]>>]
        \o opt(c.include_labels # <<>>,
               <<"(">> \o join(<<" OR ">>,
                               [i \in 1..Len(c.include_labels) |-> <<"label:", c.include_labels[i]>>])
                       \o <<")">>)
        \o [i \in 1..Len(c.exclude_senders) |-> <<"-from:">> \o c.exclude_senders[i]]
        \o opt(c.include_senders # <<>>,
               <<"(">> \o join(<<" OR ">>,
                               [i \in 1..Len(c.include_senders) |-> <<"from:">> \o c.include_senders[i]])
                       \o <<")">>)
        \o [i \in 1..Len(c.custom_queries) |-> <<c.custom_queries[i]>>]

\* the clauses, each followed by a space but the last
SpaceJoined(clauses) ==
    [k \in 1..Len(clauses) |-> IF k < Len(clauses) THEN clauses[k] \o <<" ">> ELSE clauses[k]]

RECURSIVE Concat(_)
Concat(seqs) == IF seqs = <<>> THEN <<>> ELSE Head(seqs) \o Concat(Tail(seqs))

\* C10: the query is the clauses, space-joined, in the order older-than,
\* newer-than, larger, smaller, -label per excluded label, -in per excluded
\* folder, the OR-group of required labels if any, -from per excluded sender,
\* the OR-group of allowed senders if any, then the custom fragments verbatim;
\* it depends on the configuration alone; with older_than_days 30 and
\* exclude_labels [SENT] it contains "older_than:30d" and "-label:SENT"
C10_QueryClauseOrder ==
    Built
        => /\ call.result = Concat(SpaceJoined(ClausesInOrder))
           /\ (config.older_than_days = 30 /\ config.exclude_labels = <<"SENT">>)
                  => /\ Occurs(<<"older_than:", "30", "d">>, call.result)
                     /\ Occurs(<<"-label:", "SENT">>, call.result)

\* C10's case: every kind of clause is present, and the scenario's two are
C10_Witness ==
    /\ Built
    /\ clock > Epoch
    /\ config.older_than_days = 30 /\ config.exclude_labels = <<"SENT">>
    /\ config.newer_than_days # 0 /\ config.min_size_mb # 0 /\ config.max_size_mb # 0
    /\ config.exclude_folders # <<>> /\ config.include_labels # <<>>
    /\ config.exclude_senders # <<>> /\ config.include_senders # <<>>
    /\ config.custom_queries # <<>>
    /\ Occurs(<<"older_than:", "30", "d">>, call.result)

----------------------------------------------------------------------------
(* gmail_client.py: delete_message and delete_messages_batch *)

MessageIds == {"m1", "m2", "m3"}

\* the lists of ids a caller passes, repetitions included
IdLists == UNION {[1..n -> MessageIds] : n \in 0..MaxIds}

\* what the provider answers to a request about an id (trash, delete or get),
\* every time it is asked: "ok", or the status of the HttpError that execute()
\* raises
Answers == {"ok", "NotFound", "RateLimited", "Unauthorized"}

\* api_request with the permanent delete sent whatever was asked for
api_request_always_delete(message_id, permanent) ==
    [method |-> "delete", id |-> message_id]

\* the request delete_message sends: messages().delete or messages().trash
api_request(message_id, permanent) ==
    [method |-> IF permanent THEN "delete" ELSE "trash", id |-> message_id]

\* delete_message (get_message likewise) raises GmailAPIError: execute() raised
\* an HttpError
raises_GmailAPIError(message_id) == provider[message_id] # "ok"

\* the except clause of the loop with the run given up at the failure
\* (break for continue)
except_GmailAPIError_break(frame, message_id) ==
    [frame EXCEPT !.failed_ids = Append(@, message_id), !.i = Len(frame.message_ids) + 1]

\* the except clause of the loop with the id noted among the successes
except_GmailAPIError_as_success(frame, message_id) ==
    [frame EXCEPT !.success_ids = Append(@, message_id), !.i = @ + 1]

\* the except clause of the loop: note the id as failed and continue
except_GmailAPIError(frame, message_id) ==
    [frame EXCEPT !.failed_ids = Append(@, message_id), !.i = @ + 1]

\* delete_messages_batch(message_ids, permanent) is called
DeleteMessagesBatch(message_ids, permanent) ==
    /\ batch.pc = "idle"
    /\ batch' = IF message_ids = <<>>
                THEN [pc |-> "returned", message_ids |-> message_ids,
                      permanent |-> permanent,
                      result |-> [success |-> <<>>, failed |-> <<>>]]
                ELSE [pc |-> "loop", message_ids |-> message_ids,
                      permanent |-> permanent, i |-> 1,
                      success_ids |-> <<>>, failed_ids |-> <<>>]
    /\ UNCHANGED <<config, compiled, email, clock, call, safety, provider, api_calls>>

\* one round of the loop: delete_message(message_id, permanent) and the
\* bookkeeping of its outcome
DeleteNext ==
    /\ batch.pc = "loop"
    /\ batch.i <= Len(batch.message_ids)
    /\ LET message_id == batch.message_ids[batch.i]
       IN  /\ api_calls' = Append(api_calls, api_request(message_id, batch.permanent))
           /\ batch' = IF raises_GmailAPIError(message_id)
                       THEN except_GmailAPIError(batch, message_id)
                       ELSE [batch EXCEPT !.success_ids = Append(@, message_id),
                                          !.i = @ + 1]
    /\ UNCHANGED <<config, compiled, email, clock, call, safety, provider>>

\* the loop is over: the dict of the two lists is returned
BatchReturn ==
    /\ batch.pc = "loop"
    /\ batch.i > Len(batch.message_ids)
    /\ batch' = [pc |-> "returned", message_ids |-> batch.message_ids,
                 permanent |-> batch.permanent,
                 result |-> [success |-> batch.success_ids, failed |-> batch.failed_ids]]
    /\ UNCHANGED <<config, compiled, email, clock, call, safety, provider, api_calls>>

InitBatch ==
    /\ config = DefaultFilterConfig
    /\ compiled = compile_patterns
    /\ email = TestEmail1
    /\ clock = Epoch
    /\ call = NoCall
    /\ safety \in {[DefaultSafety EXCEPT !.dry_run_mode = d] : d \in BOOLEAN}
    /\ provider \in [MessageIds -> Answers]
    /\ batch = Idle
    /\ api_calls = <<>>

NextBatch ==
    \/ \E message_ids \in IdLists, permanent \in BOOLEAN :
           DeleteMessagesBatch(message_ids, permanent)
    \/ DeleteNext
    \/ BatchReturn

SpecBatch == InitBatch /\ [][NextBatch]_vars

----------------------------------------------------------------------------
(* Claims about delete_messages_batch, checked under SpecBatch *)

Returned == batch.pc = "returned"

\* C2: in dry-run mode the bulk deletion sends no trash or delete request to
\* the provider, and the success list it returns is the list of ids it was given
C2_DryRunIssuesNoCalls ==
    safety.dry_run_mode
        => /\ api_calls = <<>>
           /\ Returned => batch.result.success = batch.message_ids

\* the positions of the list whose id the provider always refuses
FailingPositions == {j \in 1..Len(batch.message_ids) : provider[batch.message_ids[j]] # "ok"}

\* seq without its j-th element
Without(seq, j) == SubSeq(seq, 1, j - 1) \o SubSeq(seq, j + 1, Len(seq))

\* C3: when exactly one of the N ids always fails, the bulk deletion still
\* returns: N-1 ids in the success list, the failing one in the failed list,
\* N attempted in all, the ids after the failing one included; and the run
\* never stops inside the loop
C3_PartialFailure ==
    /\ batch.pc = "loop" => ENABLED (DeleteNext \/ BatchReturn)
    /\ (Returned /\ Cardinality(FailingPositions) = 1)
           => LET j == FirstOf(FailingPositions)
                  N == Len(batch.message_ids)
              IN  /\ batch.result.success = Without(batch.message_ids, j)
                  /\ Len(batch.result.success) = N - 1
                  /\ batch.result.failed = <<batch.message_ids[j]>>
                  /\ Len(batch.result.success) + Len(batch.result.failed) = N
                  /\ [k \in 1..Len(api_calls) |-> api_calls[k].id] = batch.message_ids

\* C3's case: three ids, the first of which fails, and the two after it deleted
C3_Witness ==
    /\ Returned
    /\ Len(batch.message_ids) = 3
    /\ FailingPositions = {1}
    /\ Len(batch.result.success) = 2
    /\ Len(api_calls) = 3

\* how many trash / delete requests the provider has received for an id
CallsFor(message_id) ==
    Cardinality({k \in 1..Len(api_calls) : api_calls[k].id = message_id})

\* how many positions of the list given hold the id
Occurrences(message_id) ==
    Cardinality({j \in 1..Len(batch.message_ids) : batch.message_ids[j] = message_id})

\* C13: each position of the list costs at least one request and at most
\* max_retries + 1; an id the provider keeps throttling (a transient failure)
\* is in the failed list only after the 1 + max_retries requests of its retries
C13_TransientRetried ==
    (Returned /\ batch.message_ids # <<>>) =>
        \A message_id \in MessageIds :
            /\ CallsFor(message_id) >= Occurrences(message_id)
            /\ CallsFor(message_id) <= Occurrences(message_id) * (safety.max_retries + 1)
            /\ provider[message_id] = "RateLimited" =>
                   CallsFor(message_id) = Occurrences(message_id) * (safety.max_retries + 1)

\* C14: an Unauthorized answer ends the run: no request follows the one it
\* answered, and its id is not booked as an ordinary failure in the result
C14_UnauthorizedFatal ==
    /\ \A k \in 1..(Len(api_calls) - 1) : provider[api_calls[k].id] # "Unauthorized"
    /\ (Returned /\ batch.message_ids # <<>>) =>
           \A j \in 1..Len(batch.result.failed) :
               provider[batch.result.failed[j]] # "Unauthorized"

\* the undo ledger of the run: delete_messages_batch keeps none, nothing is
\* ever appended to one
ledger == <<>>

\* C16: with enable_rollback set, every id a trash or delete request was sent
\* for has a ledger entry with the id and the action
C16_LedgerBeforeCall ==
    safety.enable_rollback =>
        \A k \in 1..Len(api_calls) :
            \E e \in 1..Len(ledger) :
                ledger[e].id = api_calls[k].id /\ ledger[e].action = api_calls[k].method

\* the positions of the list delete_message has been called for
Attempted ==
    IF batch.pc = "loop" THEN 1..(batch.i - 1) ELSE 1..Len(batch.message_ids)

\* C22: a deletion asked for without `permanent` sends trash requests only, one
\* asked for with `permanent` sends permanent delete requests only, and every
\* attempt on an id, failed or not, costs exactly one request
C22_ModeFollowsRequest ==
    batch.pc \in {"loop", "returned"} =>
        /\ \A k \in 1..Len(api_calls) :
               /\ ~batch.permanent => api_calls[k].method = "trash"
               /\ batch.permanent => api_calls[k].method = "delete"
        /\ DOMAIN api_calls = Attempted
        /\ \A k \in Attempted : api_calls[k].id = batch.message_ids[k]

\* C22's case: a soft deletion of three ids, one of them refused, that sent
\* three trash requests
C22_Witness ==
    /\ Returned
    /\ ~batch.permanent
    /\ Len(batch.message_ids) = 3
    /\ FailingPositions = {2}
    /\ [k \in 1..Len(api_calls) |-> api_calls[k].method] = <<"trash", "trash", "trash">>

\* no id is in the list twice
Distinct(seq) == \A i, j \in 1..Len(seq) : i # j => seq[i] # seq[j]

\* the ids of a list, as a set
Ids(seq) == {seq[k] : k \in 1..Len(seq)}

\* the request for the id was answered without an error
Succeeded(message_id) == provider[message_id] = "ok"

\* the request for the id was answered with an error
Refused(message_id) == provider[message_id] # "ok"

\* C24: for a list of distinct ids, whichever of them the provider refuses, the
\* bulk deletion sends one request per id in the order of the list, and returns
\* two disjoint lists that together hold exactly the ids given, each in the
\* order of the list, an id being in `success` exactly when its request
\* succeeded
C24_BatchPartition ==
    (Returned /\ Distinct(batch.message_ids)) =>
        /\ [k \in 1..Len(api_calls) |-> api_calls[k].id] = batch.message_ids
        /\ Ids(batch.result.success) \cap Ids(batch.result.failed) = {}
        /\ Ids(batch.result.success) \cup Ids(batch.result.failed) = Ids(batch.message_ids)
        /\ batch.result.success = SelectSeq(batch.message_ids, Succeeded)
        /\ batch.result.failed = SelectSeq(batch.message_ids, Refused)

\* C24's case: three distinct ids of which the first and the last are refused
C24_Witness ==
    /\ Returned
    /\ Len(batch.message_ids) = 3
    /\ Distinct(batch.message_ids)
    /\ FailingPositions = {1, 3}
    /\ batch.result.success = <<batch.message_ids[2]>>
    /\ batch.result.failed = <<batch.message_ids[1], batch.message_ids[3]>>

----------------------------------------------------------------------------
(* gmail_client.py: search_messages *)

\* the most hits the modelled mailbox holds for the query
MaxHits == 5

\* the largest page the modelled provider hands out of its own accord
MaxProviderPage == 2

\* the largest max_results the modelled caller passes
MaxCap == 3

\* the page size search_messages asks for when the caller gives none
ListPageSize == 500

\* the k-th message the query finds: a dict with id and threadId
Hit(k) == [id |-> ToString(k), threadId |-> ToString(k)]

\* the mailboxes searched: the hits of the query in the provider's order, the
\* page size the provider uses when asked for more, and the number of the list
\* request at which execute() raises HttpError (0: at none)
Mailboxes ==
    { [hits |-> [k \in 1..n |-> Hit(k)], page_size |-> p, fails_at |-> f] :
        n \in 0..MaxHits, p \in 1..MaxProviderPage, f \in 0..2 }

\* maxResults = min(500, max_results) if max_results else 500
list_maxResults(max_results) ==
    IF max_results # 0
    THEN (IF ListPageSize < max_results THEN ListPageSize ELSE max_results)
    ELSE ListPageSize

\* request.execute() of messages().list: the page of hits after the offset
\* page_token (None is 0), no larger than maxResults nor than the provider's
\* own page size; the 'messages' key is absent when the page is empty, the
\* nextPageToken when no hits remain
list_execute(mailbox, page_token, maxResults) ==
    LET size == IF maxResults < mailbox.page_size THEN maxResults ELSE mailbox.page_size
        last == IF page_token + size < Len(mailbox.hits)
                THEN page_token + size ELSE Len(mailbox.hits)
    IN  [ messages |-> SubSeq(mailbox.hits, page_token + 1, last),
          has_messages |-> last > page_token,
          nextPageToken |-> IF last < Len(mailbox.hits) THEN last ELSE 0 ]

\* reached_max_results with > for >=: a list of exactly max_results goes on
reached_max_results_exclusive(max_results, messages) ==
    max_results # 0 /\ Len(messages) > max_results

\* max_results and len(messages) >= max_results
reached_max_results(max_results, messages) ==
    max_results # 0 /\ Len(messages) >= max_results

\* search_messages(query, max_results) is called; max_results = None is 0,
\* which the code cannot tell from it
SearchMessages(max_results) ==
    /\ batch.pc = "idle"
    /\ batch' = [pc |-> "search", max_results |-> max_results,
                 messages |-> <<>>, page_token |-> 0]
    /\ UNCHANGED <<config, compiled, email, clock, call, safety, provider, api_calls>>

\* one round of the while loop: the list request, its response, and what the
\* loop does with it: raise, break and return, or go round again
ListPage ==
    /\ batch.pc = "search"
    /\ LET maxResults == list_maxResults(batch.max_results)
           response == list_execute(provider, batch.page_token, maxResults)
           request == [method |-> "list", pageToken |-> batch.page_token,
                       maxResults |-> maxResults]
           extended == IF response.has_messages
                       THEN batch.messages \o response.messages
                       ELSE batch.messages
       IN  IF provider.fails_at = Len(api_calls) + 1
           THEN /\ api_calls' = Append(api_calls, [request |-> request, raised |-> TRUE])
                /\ batch' = [pc |-> "raised", max_results |-> batch.max_results,
                             error |-> "GmailAPIError"]
           ELSE /\ api_calls' = Append(api_calls, [request |-> request, raised |-> FALSE,
                                                   response |-> response])
                /\ batch' =
                     IF response.has_messages
                        /\ reached_max_results(batch.max_results, extended)
                     THEN [pc |-> "returned", max_results |-> batch.max_results,
                           result |-> SubSeq(extended, 1, batch.max_results)]
                     ELSE IF response.nextPageToken = 0
                     THEN [pc |-> "returned", max_results |-> batch.max_results,
                           result |-> extended]
                     ELSE [batch EXCEPT !.messages = extended,
                                        !.page_token = response.nextPageToken]
    /\ UNCHANGED <<config, compiled, email, clock, call, safety, provider>>

InitSearch ==
    /\ config = DefaultFilterConfig
    /\ compiled = compile_patterns
    /\ email = TestEmail1
    /\ clock = Epoch
    /\ call = NoCall
    /\ safety = DefaultSafety
    /\ provider \in Mailboxes
    /\ batch = Idle
    /\ api_calls = <<>>

NextSearch ==
    \/ \E max_results \in 0..MaxCap : SearchMessages(max_results)
    \/ ListPage

SpecSearch == InitSearch /\ [][NextSearch]_vars

----------------------------------------------------------------------------
(* Claims about search_messages, checked under SpecSearch *)

\* the pages the first k list requests were answered with, in order
PagesReceived(k) ==
    [j \in 1..k |-> IF api_calls[j].response.has_messages
                    THEN api_calls[j].response.messages ELSE <<>>]

\* a cap is in force: max_results is a number other than 0
Capped == batch.max_results # 0

\* after the k-th response the cap is reached
CapReachedAfter(k) == Capped /\ Len(Concat(PagesReceived(k))) >= batch.max_results

\* C11: search_messages asks for the next page, with the token of the last, as
\* long as the last response carried a token and the cap was not reached, and
\* for none after that; the list it returns is the pages received, joined in
\* order and cut to max_results, so never longer than the cap
C11_SearchPaging ==
    /\ batch.pc = "search" => ENABLED ListPage
    /\ batch.pc \in {"search", "returned"} =>
         /\ \A k \in 1..Len(api_calls) : ~api_calls[k].raised
         /\ \A k \in 1..(Len(api_calls) - 1) :
              /\ api_calls[k].response.nextPageToken # 0
              /\ ~CapReachedAfter(k)
              /\ api_calls[k + 1].request.pageToken = api_calls[k].response.nextPageToken
         /\ batch.pc = "search" /\ api_calls # <<>> =>
              /\ api_calls[Len(api_calls)].response.nextPageToken # 0
              /\ ~CapReachedAfter(Len(api_calls))
    /\ Returned =>
         LET n == Len(api_calls)
             all == Concat(PagesReceived(n))
         IN  /\ n >= 1
             /\ api_calls[n].response.nextPageToken = 0 \/ CapReachedAfter(n)
             /\ batch.result = IF Capped /\ Len(all) > batch.max_results
                               THEN SubSeq(all, 1, batch.max_results) ELSE all
             /\ Capped => Len(batch.result) <= batch.max_results

\* C11's case: the cap is reached on the second page, which is cut, while the
\* provider still offers a third
C11_Witness ==
    /\ Returned
    /\ batch.max_results = 3
    /\ Len(api_calls) = 2
    /\ api_calls[2].response.nextPageToken # 0
    /\ Len(Concat(PagesReceived(2))) = 4
    /\ Len(batch.result) = 3

----------------------------------------------------------------------------
(* gmail_client.py: get_message and get_messages_batch *)

\* batch_size = 100, the chunk get_messages_batch works through at a time
GetBatchSize == 100

\* message_ids[i:i + batch_size], i counting from 0
batch_slice(message_ids, i) ==
    SubSeq(message_ids, i + 1,
           IF i + GetBatchSize < Len(message_ids) THEN i + GetBatchSize ELSE Len(message_ids))

\* the message dict messages().get(...).execute() returns for an id
Message(message_id) == [id |-> message_id, threadId |-> message_id]

\* get_messages_batch(message_ids, format) is called
GetMessagesBatch(message_ids) ==
    /\ batch.pc = "idle"
    /\ batch' = IF message_ids = <<>>
                THEN [pc |-> "returned", message_ids |-> message_ids, result |-> <<>>]
                ELSE [pc |-> "fetch", message_ids |-> message_ids, i |-> 0,
                      batch_ids |-> batch_slice(message_ids, 0), j |-> 1,
                      batch_messages |-> <<>>, messages |-> <<>>]
    /\ UNCHANGED <<config, compiled, email, clock, call, safety, provider, api_calls>>

\* get_message raised GmailAPIError: the except clause of the chunk logs it and
\* raises GmailAPIError out of get_messages_batch
get_next_raised(frame) ==
    [pc |-> "raised", message_ids |-> frame.message_ids, error |-> "GmailAPIError"]

\* get_message returned the message: it joins batch_messages
get_next_returned(frame, message) ==
    [frame EXCEPT !.batch_messages = Append(@, message), !.j = @ + 1]

\* the inner loop is through the chunk: messages.extend(batch_messages), and
\* the outer loop moves to the next chunk
chunk_done(frame) ==
    IF frame.j > Len(frame.batch_ids)
    THEN [frame EXCEPT !.messages = @ \o frame.batch_messages,
                       !.i = @ + GetBatchSize,
                       !.batch_ids = batch_slice(frame.message_ids, frame.i + GetBatchSize),
                       !.j = 1,
                       !.batch_messages = <<>>]
    ELSE frame

\* one round of the inner loop: get_message(msg_id, format) and what follows
GetNext ==
    /\ batch.pc = "fetch"
    /\ batch.i < Len(batch.message_ids)
    /\ LET msg_id == batch.batch_ids[batch.j]
       IN  /\ api_calls' = Append(api_calls, [method |-> "get", id |-> msg_id])
           /\ batch' = IF raises_GmailAPIError(msg_id)
                       THEN get_next_raised(batch)
                       ELSE chunk_done(get_next_returned(batch, Message(msg_id)))
    /\ UNCHANGED <<config, compiled, email, clock, call, safety, provider>>

\* the outer loop is over: messages is returned
GetReturn ==
    /\ batch.pc = "fetch"
    /\ batch.i >= Len(batch.message_ids)
    /\ batch' = [pc |-> "returned", message_ids |-> batch.message_ids,
                 result |-> batch.messages]
    /\ UNCHANGED <<config, compiled, email, clock, call, safety, provider, api_calls>>

InitFetch ==
    /\ config = DefaultFilterConfig
    /\ compiled = compile_patterns
    /\ email = TestEmail1
    /\ clock = Epoch
    /\ call = NoCall
    /\ safety = DefaultSafety
    /\ provider \in [MessageIds -> Answers]
    /\ batch = Idle
    /\ api_calls = <<>>

NextFetch ==
    \/ \E message_ids \in IdLists : GetMessagesBatch(message_ids)
    \/ GetNext
    \/ GetReturn

SpecFetch == InitFetch /\ [][NextFetch]_vars

----------------------------------------------------------------------------
(* Claims about get_messages_batch, checked under SpecFetch *)

\* the ids of the list the provider hands out, in the order of the list
Fetchable(message_ids) ==
    SelectSeq(message_ids, LAMBDA message_id : provider[message_id] = "ok")

\* C12: a fetch that fails for one id does not end the retrieval: the call
\* never ends by raising, and what it returns is the messages of all the ids
\* the provider hands out, those before and those after the failing id
C12_FetchFailureSkipped ==
    /\ batch.pc # "raised"
    /\ Returned => batch.result = [k \in 1..Len(Fetchable(batch.message_ids)) |->
                                      Message(Fetchable(batch.message_ids)[k])]

----------------------------------------------------------------------------
(* config.py: FilterConfig.__post_init__ and Config._update_dataclass *)

\* The FilterConfig object as Python holds it: a field declared `list = None`
\* holds None or a list, whatever was last assigned to it.

\* a Python list held by a field
List(items) == [list |-> items]

ListFields ==
    { "exclude_senders", "include_senders", "newsletter_domains", "exclude_labels",
      "include_labels", "exclude_folders", "custom_queries" }

\* the keyword arguments FilterConfig is constructed with: each list field left
\* out (None), or a list of one entry
FilterKwargs == [ListFields -> {None, List(<<"X">>)}]

\* FilterConfig(**kwargs): the dataclass __init__ and then __post_init__, which
\* puts the default list in every list field that is None
post_init(kwargs) ==
    [ f \in DOMAIN DefaultFilterConfig |->
        IF f \in ListFields
        THEN (IF IsNone(kwargs[f]) THEN List(DefaultFilterConfig[f]) ELSE kwargs[f])
        ELSE DefaultFilterConfig[f] ]

\* the keys of a `filter` section of a configuration file: the list fields, a
\* numeric field, and a key FilterConfig has no attribute for
FilterKeys == ListFields \cup {"older_than_days", "unknown_option"}

\* the values a file gives a key: a number of days, or for the other keys
\* null, [] or a list of one entry
FileValues(key) ==
    IF key = "older_than_days" THEN {30}
    ELSE {None, List(<<>>), List(<<"X">>)}

\* the `filter` sections loaded, as the items of the dict: no key, or one key
\* with its value
UpdateDicts ==
    {<<>>} \cup UNION { { << <<key, value>> >> : value \in FileValues(key) } :
                          key \in FilterKeys }

\* the loop of _update_dataclass from the i-th item on: setattr for every key
\* the instance has an attribute for
RECURSIVE update_dataclass(_, _, _)
update_dataclass(dataclass_instance, update_dict, i) ==
    IF i > Len(update_dict) THEN dataclass_instance
    ELSE LET key == update_dict[i][1]
             value == update_dict[i][2]
         IN  update_dataclass(
                 IF key \in DOMAIN dataclass_instance
                 THEN [dataclass_instance EXCEPT ![key] = value]
                 ELSE dataclass_instance,
                 update_dict, i + 1)

\* Config.load_from_file: _update_dataclass(self.filter, config_data['filter'])
UpdateDataclass(update_dict) ==
    /\ config' = update_dataclass(config, update_dict, 1)
    /\ call' = [op |-> "_update_dataclass"]
    /\ UNCHANGED <<compiled, email, clock, safety, provider, batch, api_calls>>

InitConfig ==
    /\ config \in {post_init(kwargs) : kwargs \in FilterKwargs}
    /\ compiled = compile_patterns
    /\ email = TestEmail1
    /\ clock = Epoch
    /\ call = NoCall
    /\ safety = DefaultSafety
    /\ provider = <<>>
    /\ batch = Idle
    /\ api_calls = <<>>

NextConfig == \E update_dict \in UpdateDicts : UpdateDataclass(update_dict)

SpecConfig == InitConfig /\ [][NextConfig]_vars

----------------------------------------------------------------------------
(* Claims about FilterConfig, checked under SpecConfig *)

\* C17: every list field of FilterConfig holds a list, never None, after
\* construction and after every update from a loaded file
C17_ListFieldsNeverNone ==
    \A f \in ListFields : ~IsNone(config[f])

----------------------------------------------------------------------------
(* email_filter.py: get_filter_stats *)

\* the longest list of messages the model hands to get_filter_stats
MaxStatsLen == 2

\* the messages the statistics are run on: an INBOX and an IMPORTANT message,
\* each undated, dated with and without a timezone, and of a size in each of
\* the three size buckets
StatsEmails ==
    { e \in Emails :
        /\ e.id \in {"1", "2"}
        /\ <<e.date, e.size_estimate>> \in
               { <<NoDate, MB>>,
                 <<<<Epoch - 365 * UnitsPerDay, "aware">>, 10 * MB>>,
                 <<<<Epoch - 365 * UnitsPerDay + 1, "naive">>, 50000>>,
                 <<<<Epoch - 10 * UnitsPerDay, "naive">>, 10 * MB>> } }

StatsLists == UNION {[1..n -> StatsEmails] : n \in 0..MaxStatsLen}

\* the rule sets the statistics are run under
StatsConfigs ==
    { DefaultFilterConfig,
      [DefaultFilterConfig EXCEPT !.older_than_days = 2, !.max_size_mb = 10,
                                  !.min_size_mb = 1] }

\* the dict `stats` as the loop starts
new_stats(emails_metadata) ==
    [ total_emails |-> Len(emails_metadata),
      would_process |-> 0,
      excluded_by_filter |-> <<>>,
      categories |-> [newsletter |-> 0, promotional |-> 0, automated |-> 0,
                      receipt |-> 0, social |-> 0],
      size_distribution |-> [small |-> 0, medium |-> 0, large |-> 0],
      age_distribution |-> [recent |-> 0, medium |-> 0, old |-> 0] ]

\* count_decision with the rejected messages left uncounted
count_decision_accepts_only(stats, result) ==
    IF result.should_process THEN [stats EXCEPT !.would_process = @ + 1] ELSE stats

\* would_process += 1, or excluded_by_filter[filter_type] = get(filter_type, 0) + 1
count_decision(stats, result) ==
    IF result.should_process
    THEN [stats EXCEPT !.would_process = @ + 1]
    ELSE LET filter_type == result.filter_type
             excluded == stats.excluded_by_filter
         IN  [stats EXCEPT !.excluded_by_filter =
                 IF filter_type \in DOMAIN excluded
                 THEN [excluded EXCEPT ![filter_type] = @ + 1]
                 ELSE [t \in DOMAIN excluded \cup {filter_type} |->
                          IF t = filter_type THEN 1 ELSE excluded[t]]]

\* the is_ flags of categorize_email, without the prefix, that stats counts
count_categories(stats, categories) ==
    [stats EXCEPT !.categories =
        [cat_key \in DOMAIN stats.categories |->
            IF CASE cat_key = "newsletter" -> categories.is_newsletter
                 [] cat_key = "promotional" -> categories.is_promotional
                 [] cat_key = "automated" -> categories.is_automated
                 [] cat_key = "receipt" -> categories.is_receipt
                 [] cat_key = "social" -> categories.is_social
            THEN stats.categories[cat_key] + 1
            ELSE stats.categories[cat_key]]]

\* size_mb < 1, size_mb < 10, or neither, size_mb being size_estimate / 1048576
size_bucket(metadata) ==
    IF metadata.size_estimate < 1 * MB THEN "small"
    ELSE IF metadata.size_estimate < 10 * MB THEN "medium"
    ELSE "large"

count_size(stats, metadata) ==
    [stats EXCEPT !.size_distribution[size_bucket(metadata)] = @ + 1]

\* age_days < 30, age_days < 365, or neither
age_bucket(age_days) ==
    IF age_days < 30 THEN "recent"
    ELSE IF age_days < 365 THEN "medium"
    ELSE "old"

count_age(stats, age_days) ==
    [stats EXCEPT !.age_distribution[age_bucket(age_days)] = @ + 1]

\* datetime.now() - metadata['date'] raises TypeError: the naive now and a
\* date that carries a timezone cannot be subtracted
subtract_raises(email_date) == email_date[2] = "aware"

\* get_filter_stats(emails_metadata) is called
GetFilterStats(emails_metadata) ==
    /\ call = NoCall
    /\ call' = [op |-> "get_filter_stats", pc |-> "loop",
                emails_metadata |-> emails_metadata, i |-> 1,
                stats |-> new_stats(emails_metadata)]
    /\ UNCHANGED <<config, compiled, email, clock, safety, provider, batch, api_calls>>

\* one round of the loop.  The time stage of should_process_email reads the
\* clock, and the age distribution reads it again, no earlier
StatsNext ==
    /\ call.op = "get_filter_stats" /\ call.pc = "loop"
    /\ call.i <= Len(call.emails_metadata)
    /\ \E later \in {clock, clock + 1} :
         /\ later <= Epoch + MaxTicks
         /\ clock' = later
         /\ LET metadata == call.emails_metadata[call.i]
                result == should_process_email(config, metadata, clock).result
                categories == categorize_email(config, compiled, metadata)
                counted == count_size(
                               count_categories(count_decision(call.stats, result),
                                                categories),
                               metadata)
            IN  call' =
                  IF metadata.date = NoDate
                  THEN [call EXCEPT !.stats = counted, !.i = @ + 1]
                  ELSE IF subtract_raises(metadata.date)
                  THEN [op |-> "get_filter_stats", pc |-> "raised",
                        emails_metadata |-> call.emails_metadata, error |-> "TypeError"]
                  ELSE [call EXCEPT
                          !.stats = count_age(counted, days(later - metadata.date[1])),
                          !.i = @ + 1]
    /\ UNCHANGED <<config, compiled, email, safety, provider, batch, api_calls>>

\* the loop is over: process_percentage, as the fraction would_process * 100 /
\* total_emails (0 for an empty list), and the return
StatsReturn ==
    /\ call.op = "get_filter_stats" /\ call.pc = "loop"
    /\ call.i > Len(call.emails_metadata)
    /\ call' = [op |-> "get_filter_stats", pc |-> "returned",
                emails_metadata |-> call.emails_metadata,
                result |-> [ stats |-> call.stats,
                             process_percentage |->
                                 IF call.stats.total_emails > 0
                                 THEN <<call.stats.would_process * 100,
                                        call.stats.total_emails>>
                                 ELSE <<0, 1>> ]]
    /\ UNCHANGED <<config, compiled, email, clock, safety, provider, batch, api_calls>>

InitStats ==
    /\ config \in StatsConfigs
    /\ compiled = compile_patterns
    /\ email = TestEmail1
    /\ clock = Epoch
    /\ call = NoCall
    /\ safety = DefaultSafety
    /\ provider = <<>>
    /\ batch = Idle
    /\ api_calls = <<>>

NextStats ==
    \/ Tick
    \/ \E emails_metadata \in StatsLists : GetFilterStats(emails_metadata)
    \/ StatsNext
    \/ StatsReturn

SpecStats == InitStats /\ [][NextStats]_vars

----------------------------------------------------------------------------
(* Claims about get_filter_stats, checked under SpecStats *)

StatsRunning == call.op = "get_filter_stats" /\ call.pc = "loop"

StatsReturned == call.op = "get_filter_stats" /\ call.pc = "returned"

StatsRaised == call.op = "get_filter_stats" /\ call.pc = "raised"

\* the sum of the counters of a dict
RECURSIVE Total(_)
Total(counters) ==
    IF DOMAIN counters = {} THEN 0
    ELSE LET key == CHOOSE k \in DOMAIN counters : TRUE
         IN  counters[key] + Total([k \in DOMAIN counters \ {key} |-> counters[k]])

\* the age buckets that count at least one message
AgeBucketsUsed(stats) ==
    {bucket \in DOMAIN stats.age_distribution : stats.age_distribution[bucket] > 0}

\* every message of the list carries the same timestamp
SameTimestamp(emails_metadata) ==
    /\ emails_metadata # <<>>
    /\ \A k \in 1..Len(emails_metadata) :
           /\ emails_metadata[k].date # NoDate
           /\ emails_metadata[k].date = emails_metadata[1].date

\* C21: the ages of one statistics run are taken against one "now": when all
\* the messages of the list carry the same timestamp, they are all counted in
\* the same age bucket, however long the run took
C21_OneNowPerRun ==
    (StatsReturned /\ SameTimestamp(call.emails_metadata)) =>
        Cardinality(AgeBucketsUsed(call.result.stats)) = 1

\* the decision should_process_email takes in the round the loop is about to run
DecisionNow == should_process_email(config, call.emails_metadata[call.i], clock).result

\* a round of the loop that counted its message
Counted ==
    /\ StatsRunning
    /\ call'.op = "get_filter_stats" /\ call'.pc = "loop"
    /\ call'.i = call.i + 1

\* C23: every round of the loop adds one to would_process when the message is
\* accepted and one to the counter of the rejecting stage, and to no other, when
\* it is rejected, and one to one size bucket; so when the statistics are
\* returned would_process and the counters of excluded_by_filter sum to
\* total_emails, and so do the three size buckets
C23_CountersPartition ==
    /\ [](StatsReturned =>
            LET stats == call.result.stats
            IN  /\ stats.total_emails = Len(call.emails_metadata)
                /\ stats.would_process + Total(stats.excluded_by_filter) = stats.total_emails
                /\ DOMAIN stats.size_distribution = {"small", "medium", "large"}
                /\ Total(stats.size_distribution) = stats.total_emails)
    /\ [][Counted =>
            LET before == call.stats
                after == call'.stats
                size == call.emails_metadata[call.i].size_estimate
            IN  /\ DecisionNow.should_process =>
                       /\ after.would_process = before.would_process + 1
                       /\ after.excluded_by_filter = before.excluded_by_filter
                /\ ~DecisionNow.should_process =>
                       /\ after.would_process = before.would_process
                       /\ DOMAIN after.excluded_by_filter =
                              DOMAIN before.excluded_by_filter \cup {DecisionNow.filter_type}
                       /\ \A t \in DOMAIN after.excluded_by_filter :
                              after.excluded_by_filter[t] =
                                  (IF t \in DOMAIN before.excluded_by_filter
                                   THEN before.excluded_by_filter[t] ELSE 0)
                                  + (IF t = DecisionNow.filter_type THEN 1 ELSE 0)
                /\ \A bucket \in DOMAIN after.size_distribution :
                       after.size_distribution[bucket] =
                           before.size_distribution[bucket]
                           + (IF \/ bucket = "small" /\ size < MB
                                 \/ bucket = "medium" /\ MB <= size /\ size < 10 * MB
                                 \/ bucket = "large" /\ size >= 10 * MB
                              THEN 1 ELSE 0)]_vars

\* C23's case: statistics returned for an accepted message below 1 MB and a
\* rejected one of 10 MB
C23_Witness ==
    /\ StatsReturned
    /\ call.result.stats.total_emails = 2
    /\ call.result.stats.would_process = 1
    /\ Total(call.result.stats.excluded_by_filter) = 1
    /\ call.result.stats.size_distribution = [small |-> 1, medium |-> 0, large |-> 1]

\* the messages of the list that carry a timestamp
Dated(emails_metadata) ==
    {k \in 1..Len(emails_metadata) : emails_metadata[k].date # NoDate}

\* C25: get_filter_stats never raises, whether the timestamps of the messages
\* carry a timezone or are missing, and the statistics it returns count every
\* message that has a timestamp in exactly one age bucket
C25_StatsComplete ==
    /\ ~StatsRaised
    /\ StatsReturned =>
           Total(call.result.stats.age_distribution) = Cardinality(Dated(call.emails_metadata))

====
